---- MODULE Spec2Model ----
(***************************************************************************)
(* Field-level audit logger of the permit manager: the change detector,    *)
(* the audit recorder (write path with swallow-on-failure) and the read    *)
(* queries over the append-only audit store.                               *)
(***************************************************************************)
EXTENDS Integers, Sequences, FiniteSets, TLC

VARIABLES
    store,      \* the auditLogs relation, in insertion order (id = position)
    calls,      \* one record per in-flight or finished logging call
    result,     \* what the last read call returned, with its arguments
    original,   \* detector input: the original permit (or Absent)
    updated,    \* detector input: the updated permit
    changes,    \* detector output: the FieldChange sequence
    dpc,        \* position of the detector run: "ready" or "done"
    view        \* the audit trail view: its pagination state and its page

vars == <<store, calls, result, original, updated, changes, dpc, view>>

-----------------------------------------------------------------------------
(* JavaScript values.  Every value is a record [t, v]: t is the runtime    *)
(* type tag and v a sequence of strings carrying the payload.              *)

Null == [t |-> "null", v |-> <<>>]

Undefined == [t |-> "undefined", v |-> <<>>]

Str(s) == [t |-> "string", v |-> <<s>>]

Num(n) == [t |-> "number", v |-> <<ToString(n)>>]

Arr(elems) == [t |-> "array", v |-> elems]

DateV(iso) == [t |-> "date", v |-> <<iso>>]

\* typeof value
TypeOf(value) ==
    CASE value.t = "undefined" -> "undefined"
      [] value.t = "string" -> "string"
      [] value.t = "number" -> "number"
      [] OTHER -> "object"

\* Array.isArray(value)
IsArray(value) == value.t = "array"

\* value instanceof Date
IsDate(value) == value.t = "date"

\* JavaScript truthiness of a value (used by `||`)
Truthy(value) ==
    CASE value.t = "null" -> FALSE
      [] value.t = "undefined" -> FALSE
      [] value.t = "string" -> value.v[1] # ""
      [] value.t = "number" -> value.v[1] # "0"
      [] OTHER -> TRUE

Quote(s) == "\"" \o s \o "\""

RECURSIVE JoinQuoted(_)
JoinQuoted(elems) ==
    IF elems = <<>> THEN ""
    ELSE IF Len(elems) = 1 THEN Quote(elems[1])
    ELSE Quote(elems[1]) \o "," \o JoinQuoted(Tail(elems))

\* JSON.stringify(value), as text
JSONstringify(value) ==
    CASE value.t = "null" -> "null"
      [] value.t = "undefined" -> "undefined"
      [] value.t = "string" -> Quote(value.v[1])
      [] value.t = "number" -> value.v[1]
      [] value.t = "date" -> Quote(value.v[1])
      [] OTHER -> "[" \o JoinQuoted(value.v) \o "]"

\* String(value) for a primitive
StringOf(value) == value.v[1]

-----------------------------------------------------------------------------
(* Permits.  A permit is [id, props]: id is the numeric primary key and    *)
(* props maps each property the object has to its value; a property the    *)
(* object lacks reads as undefined.                                        *)

Absent == [id |-> 0, props |-> <<>>]

Get(permit, field) ==
    IF field = "id" THEN Num(permit.id)
    ELSE IF field \in DOMAIN permit.props THEN permit.props[field]
    ELSE Undefined

fieldsToTrack_noStatus ==
    << "type", "location", "description", "requestorName", "department",
       "contactNumber", "emergencyContact", "startDate", "endDate",
       "riskLevel", "safetyOfficer", "departmentHead",
       "maintenanceApprover", "identifiedHazards", "additionalComments",
       "selectedHazards", "hazardNotes", "completedMeasures",
       "performerName", "performerSignature", "preWorkMeasuresSignature",
       "workRemovalSignature", "immediateActions", "beforeWorkStarts",
       "complianceNotes", "overallRisk", "workLocationId",
       "mapPositionX", "mapPositionY" >>

fieldsToTrack ==
    << "type", "location", "description", "requestorName", "department",
       "contactNumber", "emergencyContact", "startDate", "endDate",
       "status", "riskLevel", "safetyOfficer", "departmentHead",
       "maintenanceApprover", "identifiedHazards", "additionalComments",
       "selectedHazards", "hazardNotes", "completedMeasures",
       "performerName", "performerSignature", "preWorkMeasuresSignature",
       "workRemovalSignature", "immediateActions", "beforeWorkStarts",
       "complianceNotes", "overallRisk", "workLocationId",
       "mapPositionX", "mapPositionY" >>

TrackedFields == {fieldsToTrack[k] : k \in DOMAIN fieldsToTrack}

-----------------------------------------------------------------------------
(* 4.1 Change detector                                                     *)

hasValueChanged_unordered(oldValue, newValue) ==
    IF oldValue = Null /\ newValue = Null THEN FALSE
    ELSE IF oldValue = Undefined /\ newValue = Undefined THEN FALSE
    ELSE IF oldValue = Null /\ newValue = Str("") THEN FALSE
    ELSE IF oldValue = Str("") /\ newValue = Null THEN FALSE
    ELSE IF IsArray(oldValue) /\ IsArray(newValue)
        THEN {oldValue.v[k] : k \in DOMAIN oldValue.v}
                # {newValue.v[k] : k \in DOMAIN newValue.v}
    ELSE IF IsDate(oldValue) /\ IsDate(newValue)
        THEN oldValue.v[1] # newValue.v[1]
    ELSE IF TypeOf(oldValue) = "object" /\ TypeOf(newValue) = "object"
        THEN JSONstringify(oldValue) # JSONstringify(newValue)
    ELSE oldValue # newValue

hasValueChanged(oldValue, newValue) ==
    IF oldValue = Null /\ newValue = Null THEN FALSE
    ELSE IF oldValue = Undefined /\ newValue = Undefined THEN FALSE
    ELSE IF oldValue = Null /\ newValue = Str("") THEN FALSE
    ELSE IF oldValue = Str("") /\ newValue = Null THEN FALSE
    ELSE IF IsArray(oldValue) /\ IsArray(newValue)
        THEN JSONstringify(oldValue) # JSONstringify(newValue)
    ELSE IF IsDate(oldValue) /\ IsDate(newValue)
        THEN oldValue.v[1] # newValue.v[1]
    ELSE IF TypeOf(oldValue) = "object" /\ TypeOf(newValue) = "object"
        THEN JSONstringify(oldValue) # JSONstringify(newValue)
    ELSE oldValue # newValue

FieldChange_swapped(field, oldValue, newValue) ==
    [field |-> field, oldValue |-> newValue, newValue |-> oldValue]

FieldChange(field, oldValue, newValue) ==
    [field |-> field, oldValue |-> oldValue, newValue |-> newValue]

RECURSIVE detectFrom_reversed(_, _, _)
detectFrom_reversed(orig, upd, k) ==
    IF k > Len(fieldsToTrack) THEN <<>>
    ELSE LET field == fieldsToTrack[k]
             oldValue == Get(orig, field)
             newValue == Get(upd, field)
         IN  IF hasValueChanged(oldValue, newValue)
             THEN detectFrom_reversed(orig, upd, k + 1)
                      \o <<FieldChange(field, oldValue, newValue)>>
             ELSE detectFrom_reversed(orig, upd, k + 1)

\* the loop over fieldsToTrack, from position k on
RECURSIVE detectFrom(_, _, _)
detectFrom(orig, upd, k) ==
    IF k > Len(fieldsToTrack) THEN <<>>
    ELSE LET field == fieldsToTrack[k]
             oldValue == Get(orig, field)
             newValue == Get(upd, field)
         IN  IF hasValueChanged(oldValue, newValue)
             THEN <<FieldChange(field, oldValue, newValue)>>
                      \o detectFrom(orig, upd, k + 1)
             ELSE detectFrom(orig, upd, k + 1)

detectChanges_noGuard(orig, upd) == detectFrom(orig, upd, 1)

detectChanges(orig, upd) ==
    IF orig = Absent THEN <<>>
    ELSE detectFrom(orig, upd, 1)

-----------------------------------------------------------------------------
(* 4.3 Value formatter                                                     *)

formatValue(value) ==
    IF value = Null \/ value = Undefined THEN Null
    ELSE IF TypeOf(value) = "string" THEN value
    ELSE IF TypeOf(value) = "object" THEN Str(JSONstringify(value))
    ELSE Str(StringOf(value))

\* `${value}` inside a template literal, for the values a status takes
TemplateText(value) ==
    CASE value.t = "null" -> "null"
      [] value.t = "undefined" -> "undefined"
      [] OTHER -> value.v[1]

\* value || fallback
OrElse(value, fallback) == IF Truthy(value) THEN value ELSE fallback

\* new Date().toISOString() at logical time t
IsoString(t) == "T" \o ToString(t)

Merge_firstWins(a, b) ==
    [k \in DOMAIN a \cup DOMAIN b |-> IF k \in DOMAIN a THEN a[k] ELSE b[k]]

\* { ...a, ...b }: the keys of b win
Merge(a, b) ==
    [k \in DOMAIN a \cup DOMAIN b |-> IF k \in DOMAIN b THEN b[k] ELSE a[k]]

-----------------------------------------------------------------------------
(* The audit store.  An insert appends one row; the store assigns id and   *)
(* createdAt.  createdAt never decreases along the insertion order, and    *)
(* two consecutive inserts may get the same createdAt.  The store holds at *)
(* most MaxStore rows: an insert into a full store fails.                  *)

MaxStore == 3

LastCreatedAt(rows) == IF rows = <<>> THEN 0 ELSE rows[Len(rows)].createdAt

\* the times the store may assign to the next insert
NowChoices(rows) ==
    IF rows = <<>> THEN {1}
    ELSE {LastCreatedAt(rows), LastCreatedAt(rows) + 1}

createAuditEntry_upsert(rows, entry, now) ==
    IF rows = <<>>
    THEN <<Merge(entry, [id |-> 1, createdAt |-> now])>>
    ELSE [rows EXCEPT ![Len(rows)] =
            Merge(entry, [id |-> Len(rows), createdAt |-> now])]

createAuditEntry(rows, entry, now) ==
    Append(rows, Merge(entry, [id |-> Len(rows) + 1, createdAt |-> now]))

-----------------------------------------------------------------------------
(* 4.2 Audit recorder: write operations                                    *)

\* the two concurrent requests that issue logging calls, numbered in the
\* order in which they arrive
CallIds == {1, 2}

\* request c arrives: it is the next one, and has not called yet
Arrives(c) ==
    /\ calls[c].pc = "idle"
    /\ \A d \in CallIds : d < c => calls[d].pc # "idle"

NoContext ==
    [userId |-> 0, actionType |-> "", ipAddress |-> Undefined,
     userAgent |-> Undefined, metadata |-> <<>>]

IdleCall ==
    [pc |-> "idle", op |-> "none", original |-> Absent, updated |-> Absent,
     context |-> NoContext, changes |-> <<>>, i |-> 0,
     written |-> <<>>, attempts |-> 0, failed |-> FALSE,
     outcome |-> "pending"]

\* the entry built at lines 32-47 for one change, at time now
ChangeEntry(upd, context, change, now) ==
    [permitId |-> upd.id,
     userId |-> context.userId,
     actionType |-> context.actionType,
     fieldName |-> Str(change.field),
     oldValue |-> formatValue(change.oldValue),
     newValue |-> formatValue(change.newValue),
     ipAddress |-> OrElse(context.ipAddress, Null),
     userAgent |-> OrElse(context.userAgent, Null),
     metadata |-> Merge(context.metadata,
                        [permitId |-> Get(upd, "permitId"),
                         permitType |-> Get(upd, "type"),
                         timestamp |-> Str(IsoString(now))])]

\* the entry built by logStatusChange
StatusEntry(permit, oldStatus, newStatus, context, now) ==
    [permitId |-> permit.id,
     userId |-> context.userId,
     actionType |-> "status_change",
     fieldName |-> Str("status"),
     oldValue |-> OrElse(oldStatus, Str("undefined")),
     newValue |-> newStatus,
     ipAddress |-> OrElse(context.ipAddress, Null),
     userAgent |-> OrElse(context.userAgent, Null),
     metadata |-> [permitId |-> Get(permit, "permitId"),
                   permitType |-> Get(permit, "type"),
                   statusTransition |->
                       Str(TemplateText(OrElse(oldStatus, Str("undefined")))
                           \o " -> " \o TemplateText(newStatus)),
                   timestamp |-> Str(IsoString(now))]]

\* JSON.stringify({permitId, type, status}) of a permit
Snapshot(permit) ==
    Str("{\"permitId\":" \o JSONstringify(Get(permit, "permitId"))
        \o ",\"type\":" \o JSONstringify(Get(permit, "type"))
        \o ",\"status\":" \o JSONstringify(Get(permit, "status")) \o "}")

CreationEntry_contextType(permit, context, now) ==
    [permitId |-> permit.id,
     userId |-> context.userId,
     actionType |-> context.actionType,
     fieldName |-> Null,
     oldValue |-> Null,
     newValue |-> Snapshot(permit),
     ipAddress |-> OrElse(context.ipAddress, Null),
     userAgent |-> OrElse(context.userAgent, Null),
     metadata |-> [permitId |-> Get(permit, "permitId"),
                   permitType |-> Get(permit, "type"),
                   timestamp |-> Str(IsoString(now))]]

CreationEntry(permit, context, now) ==
    [permitId |-> permit.id,
     userId |-> context.userId,
     actionType |-> "create",
     fieldName |-> Null,
     oldValue |-> Null,
     newValue |-> Snapshot(permit),
     ipAddress |-> OrElse(context.ipAddress, Null),
     userAgent |-> OrElse(context.userAgent, Null),
     metadata |-> [permitId |-> Get(permit, "permitId"),
                   permitType |-> Get(permit, "type"),
                   timestamp |-> Str(IsoString(now))]]

DeletionEntry(permit, context, now) ==
    [permitId |-> permit.id,
     userId |-> context.userId,
     actionType |-> "delete",
     fieldName |-> Null,
     oldValue |-> Snapshot(permit),
     newValue |-> Null,
     ipAddress |-> OrElse(context.ipAddress, Null),
     userAgent |-> OrElse(context.userAgent, Null),
     metadata |-> [permitId |-> Get(permit, "permitId"),
                   permitType |-> Get(permit, "type"),
                   timestamp |-> Str(IsoString(now))]]

StatusDiffers_inverted(orig, upd) == Get(orig, "status") = Get(upd, "status")

\* originalPermit?.status !== updatedPermit.status
StatusDiffers(orig, upd) == Get(orig, "status") # Get(upd, "status")

\* where the call stands once the loop has handled changes 1 .. i-1
AfterChange(call, i) ==
    IF i <= Len(call.changes)
    THEN [call EXCEPT !.pc = "insertChange", !.i = i]
    ELSE IF StatusDiffers(call.original, call.updated)
    THEN [call EXCEPT !.pc = "insertStatus", !.i = i]
    ELSE [call EXCEPT !.pc = "returned", !.i = i, !.outcome = "resolved"]

catchError_rethrow(call) ==
    [call EXCEPT !.pc = "returned", !.failed = TRUE, !.outcome = "rejected"]

catchError_continue(call) ==
    IF call.pc = "insertChange"
    THEN [AfterChange(call, call.i + 1) EXCEPT !.failed = TRUE]
    ELSE [call EXCEPT !.pc = "returned", !.failed = TRUE,
                      !.outcome = "resolved"]

\* the catch block of a write operation: log the error, return normally
catchError(call) ==
    [call EXCEPT !.pc = "returned", !.failed = TRUE, !.outcome = "resolved"]

\* the awaited insert succeeds: the row is in the store
Inserted(call, rows) ==
    [call EXCEPT !.written = Append(@, Len(rows) + 1),
                 !.attempts = @ + 1]

\* the awaited insert throws
InsertFailed(call) == [call EXCEPT !.attempts = @ + 1]

\* no read call has just returned
NoResult == [op |-> "none", permitId |-> 0, filters |-> <<>>, rows |-> <<>>]

\* logPermitChanges is called: the changes are computed and the call
\* stands at its first await, or returns when there is nothing to write
logPermitChanges(c, orig, upd, context) ==
    /\ Arrives(c)
    /\ calls' = [calls EXCEPT ![c] =
                    AfterChange([IdleCall EXCEPT !.op = "logPermitChanges",
                                                 !.original = orig,
                                                 !.updated = upd,
                                                 !.context = context,
                                                 !.changes =
                                                    detectChanges(orig, upd)],
                                1)]
    /\ result' = NoResult
    /\ UNCHANGED <<store, original, updated, changes, dpc, view>>

\* one iteration of the loop: the insert of changes[i] completes or throws
insertChange(c) ==
    LET call == calls[c] IN
    /\ call.pc = "insertChange"
    /\ \/ /\ Len(store) < MaxStore
          /\ \E now \in NowChoices(store) :
                store' = createAuditEntry(store,
                            ChangeEntry(call.updated, call.context,
                                        call.changes[call.i], now), now)
          /\ calls' = [calls EXCEPT ![c] =
                          AfterChange(Inserted(call, store), call.i + 1)]
       \/ /\ store' = store
          /\ calls' = [calls EXCEPT ![c] = catchError(InsertFailed(call))]
    /\ result' = NoResult
    /\ UNCHANGED <<original, updated, changes, dpc, view>>

\* the special handling of a status change: logStatusChange's insert
logStatusChange(c) ==
    LET call == calls[c] IN
    /\ call.pc = "insertStatus"
    /\ \/ /\ Len(store) < MaxStore
          /\ \E now \in NowChoices(store) :
                store' = createAuditEntry(store,
                            StatusEntry(call.updated,
                                        Get(call.original, "status"),
                                        Get(call.updated, "status"),
                                        call.context, now), now)
          /\ calls' = [calls EXCEPT ![c] =
                          [Inserted(call, store) EXCEPT
                              !.pc = "returned", !.outcome = "resolved"]]
       \/ /\ store' = store
          /\ calls' = [calls EXCEPT ![c] = catchError(InsertFailed(call))]
    /\ result' = NoResult
    /\ UNCHANGED <<original, updated, changes, dpc, view>>

logPermitCreation(c, permit, context) ==
    LET call == [IdleCall EXCEPT !.op = "logPermitCreation",
                                 !.updated = permit, !.context = context]
    IN
    /\ Arrives(c)
    /\ \/ /\ Len(store) < MaxStore
          /\ \E now \in NowChoices(store) :
                store' = createAuditEntry(store,
                            CreationEntry(permit, context, now), now)
          /\ calls' = [calls EXCEPT ![c] =
                          [Inserted(call, store) EXCEPT
                              !.pc = "returned", !.outcome = "resolved"]]
       \/ /\ store' = store
          /\ calls' = [calls EXCEPT ![c] = catchError(InsertFailed(call))]
    /\ result' = NoResult
    /\ UNCHANGED <<original, updated, changes, dpc, view>>

logPermitDeletion(c, permit, context) ==
    LET call == [IdleCall EXCEPT !.op = "logPermitDeletion",
                                 !.updated = permit, !.context = context]
    IN
    /\ Arrives(c)
    /\ \/ /\ Len(store) < MaxStore
          /\ \E now \in NowChoices(store) :
                store' = createAuditEntry(store,
                            DeletionEntry(permit, context, now), now)
          /\ calls' = [calls EXCEPT ![c] =
                          [Inserted(call, store) EXCEPT
                              !.pc = "returned", !.outcome = "resolved"]]
       \/ /\ store' = store
          /\ calls' = [calls EXCEPT ![c] = catchError(InsertFailed(call))]
    /\ result' = NoResult
    /\ UNCHANGED <<original, updated, changes, dpc, view>>

-----------------------------------------------------------------------------
(* 4.2 Audit recorder: read operations                                     *)

\* the select list of a query: the columns kept of a row
Project(row, columns) == [k \in columns |-> row[k]]

PermitLogColumns ==
    {"id", "actionType", "fieldName", "oldValue", "newValue", "ipAddress",
     "userAgent", "metadata", "createdAt", "userId"}

AllLogColumns ==
    {"id", "permitId", "userId", "actionType", "fieldName", "oldValue",
     "newValue", "ipAddress", "userAgent", "metadata", "createdAt"}

\* db.select(columns).from(auditLogs)
selectFrom(columns) ==
    [columns |-> columns, where |-> <<>>, limit |-> <<>>, offset |-> <<>>]

\* query.where(db.eq(column, value)): one more equality the rows must meet
where(query, column, value) ==
    [query EXCEPT !.where = Merge(@, column :> value)]

limitTo(query, n) == [query EXCEPT !.limit = <<n>>]

offsetBy(query, n) == [query EXCEPT !.offset = <<n>>]

Min(a, b) == IF a < b THEN a ELSE b

\* the orders in which the store may return the rows at positions idxs
\* under ORDER BY createdAt DESC: rows of equal createdAt come in any order
OrderByCreatedAtDesc(rows, idxs) ==
    { s \in [1 .. Cardinality(idxs) -> idxs] :
        /\ \A a, b \in DOMAIN s : a # b => s[a] # s[b]
        /\ \A a, b \in DOMAIN s :
              a < b => rows[s[a]].createdAt >= rows[s[b]].createdAt }

\* the results the store may return for a query over rows
Execute(rows, query) ==
    LET idxs == { k \in DOMAIN rows :
                    \A col \in DOMAIN query.where :
                        rows[k][col] = query.where[col] }
        skip == IF query.offset = <<>> THEN 0 ELSE query.offset[1]
        Cut(s) ==
            LET rest == SubSeq(s, skip + 1, Len(s))
            IN  IF query.limit = <<>> THEN rest
                ELSE SubSeq(rest, 1, Min(query.limit[1], Len(rest)))
    IN  { [k \in DOMAIN Cut(s) |-> Project(rows[Cut(s)[k]], query.columns)] :
            s \in OrderByCreatedAtDesc(rows, idxs) }

permitAuditLogsQuery(permitId) ==
    where(selectFrom(PermitLogColumns), "permitId", permitId)

\* filters?.key is truthy
Given(filters, key) ==
    /\ key \in DOMAIN filters
    /\ filters[key] # (IF key = "actionType" THEN "" ELSE 0)

allAuditLogsQuery(filters) ==
    LET q0 == selectFrom(AllLogColumns)
        q1 == IF Given(filters, "userId")
              THEN where(q0, "userId", filters["userId"]) ELSE q0
        q2 == IF Given(filters, "permitId")
              THEN where(q1, "permitId", filters["permitId"]) ELSE q1
        q3 == IF Given(filters, "actionType")
              THEN where(q2, "actionType", filters["actionType"]) ELSE q2
        q4 == IF Given(filters, "limit")
              THEN limitTo(q3, filters["limit"]) ELSE q3
        q5 == IF Given(filters, "offset")
              THEN offsetBy(q4, filters["offset"]) ELSE q4
    IN  q5

getPermitAuditLogs(permitId) ==
    /\ \E rows \in Execute(store, permitAuditLogsQuery(permitId)) :
          result' = [op |-> "getPermitAuditLogs", permitId |-> permitId,
                     filters |-> <<>>, rows |-> rows]
    /\ UNCHANGED <<store, calls, original, updated, changes, dpc, view>>

getAllAuditLogs(filters) ==
    /\ \E rows \in Execute(store, allAuditLogsQuery(filters)) :
          result' = [op |-> "getAllAuditLogs", permitId |-> 0,
                     filters |-> filters, rows |-> rows]
    /\ UNCHANGED <<store, calls, original, updated, changes, dpc, view>>

-----------------------------------------------------------------------------
(* The audit trail view (client).  The view keeps limit and offset, asks   *)
(* the server for the page they name and shows the pagination buttons      *)
(* according to the length of the page it holds.                           *)

\* the most entries the server holds while the view is open
MaxTotal == 80

\* useState(50)
DefaultLimit == 50

\* the entries of the limit select
LimitOptions == {25, 50, 100, 200}

Max(a, b) == IF a > b THEN a ELSE b

\* the view after it is mounted: nothing fetched yet.  page is
\* auditLogs.length, total the number of entries the server holds, and
\* clicked the control used last.
InitialView ==
    [limit |-> DefaultLimit, offset |-> 0, page |-> 0, total |-> 0,
     clicked |-> "none"]

\* the number of rows the query returns under limit and offset
PageLength(total, limit, offset) == Min(limit, Max(0, total - offset))

\* auditLogs.length >= limit: the pagination block is rendered
PaginationShown(v) == v.page >= v.limit

\* disabled={offset === 0}
PreviousDisabled(v) == v.offset = 0

\* disabled={auditLogs.length < limit}
NextDisabled(v) == v.page < v.limit

PreviousOffset_noClamp(v) == v.offset - v.limit

\* Math.max(0, offset - limit)
PreviousOffset(v) == Max(0, v.offset - v.limit)

\* the state after a control set limit and offset: under a new query key
\* the page is empty until the fetch returns
Requery(v, limit, offset, control) ==
    [v EXCEPT !.limit = limit, !.offset = offset, !.clicked = control,
              !.page = IF limit = v.limit /\ offset = v.offset
                       THEN v.page ELSE 0]

\* the "Naechste" button
ViewNext ==
    /\ PaginationShown(view)
    /\ ~NextDisabled(view)
    /\ view' = Requery(view, view.limit, view.offset + view.limit, "next")
    /\ UNCHANGED <<store, calls, result, original, updated, changes, dpc>>

\* the "Vorherige" button
ViewPrevious ==
    /\ PaginationShown(view)
    /\ ~PreviousDisabled(view)
    /\ view' = Requery(view, view.limit, PreviousOffset(view), "previous")
    /\ UNCHANGED <<store, calls, result, original, updated, changes, dpc>>

\* the "Zuruecksetzen" button
ViewReset ==
    /\ view' = Requery(view, view.limit, 0, "reset")
    /\ UNCHANGED <<store, calls, result, original, updated, changes, dpc>>

\* the limit select: the offset stays as it is
ViewSetLimit(limit) ==
    /\ view' = Requery(view, limit, view.offset, "limit")
    /\ UNCHANGED <<store, calls, result, original, updated, changes, dpc>>

\* the query (or a refetch of it) returns the page
ViewFetched ==
    /\ view' = [view EXCEPT
                  !.page = PageLength(view.total, view.limit, view.offset),
                  !.clicked = "none"]
    /\ UNCHANGED <<store, calls, result, original, updated, changes, dpc>>

\* the recorder persisted one more entry while the view is open
ViewEntryLogged ==
    /\ view.total < MaxTotal
    /\ view' = [view EXCEPT !.total = @ + 1, !.clicked = "none"]
    /\ UNCHANGED <<store, calls, result, original, updated, changes, dpc>>

ViewStep ==
    \/ ViewNext
    \/ ViewPrevious
    \/ ViewReset
    \/ \E limit \in LimitOptions : ViewSetLimit(limit)
    \/ ViewFetched
    \/ ViewEntryLogged

-----------------------------------------------------------------------------
(* The recorder under concurrent requests: the arguments of each call are  *)
(* drawn from small sets of permits, contexts and filters.                 *)

PermitIds == {1, 2}

Permit(id, status, location) ==
    [id |-> id,
     props |-> [permitId |-> Str("P-" \o ToString(id)),
                type |-> Str("hot_work"),
                status |-> Str(status),
                location |-> Str(location)]]

\* the updated permits of the write-heavy runs
Permits ==
    { Permit(1, st, loc) : st \in {"pending", "approved"}, loc \in {"a", "b"} }

\* the originals a caller passes along with an updated permit: the stored
\* row of the same permit, or nothing
Originals(upd) == {Absent, Permit(upd.id, "pending", "a")}

Context(userId, actionType) ==
    [userId |-> userId, actionType |-> actionType, ipAddress |-> Undefined,
     userAgent |-> Undefined, metadata |-> <<>>]

\* metadata a caller supplies with its context: one key of its own and one
\* that has the name of a derived key
CallerMetadata == [requestId |-> Str("r-7"), permitId |-> Str("X-9")]

Contexts ==
    { Context(1, "update"),
      [Context(2, "create") EXCEPT !.metadata = CallerMetadata] }

\* an option of the filters object: absent, or present with a value
Option(key, choice) == IF choice = <<>> THEN <<>> ELSE key :> choice[1]

\* the filter objects of the read-heavy runs
Filters ==
    { Merge(Option("userId", u),
        Merge(Option("permitId", p), Option("actionType", a))) :
        u \in {<<>>, <<0>>, <<1>>},
        p \in {<<>>, <<1>>},
        a \in {<<>>, <<"update">>} }
    \cup { Merge(Option("actionType", a), Option("limit", l)) :
             a \in {<<>>, <<"update">>}, l \in {<<0>>, <<1>>} }
    \cup { [offset |-> 1], [limit |-> 1, offset |-> 1] }

\* the filter objects of the write-heavy runs
FewFilters == { <<>>, [actionType |-> "update", limit |-> 1] }

\* the updated permits of the read-heavy runs
FewPermits == { Permit(id, "approved", "a") : id \in PermitIds }

Init ==
    /\ store = <<>>
    /\ calls = [c \in CallIds |-> IdleCall]
    /\ result = NoResult
    /\ original = Absent
    /\ updated = Absent
    /\ changes = <<>>
    /\ dpc = "off"
    /\ view = InitialView

\* the steps of the recorder, with the call arguments drawn from the
\* given permits and filter objects
Step(permits, filterChoices) ==
    \/ \E c \in CallIds, upd \in permits, ctx \in Contexts :
          \E orig \in Originals(upd) : logPermitChanges(c, orig, upd, ctx)
    \/ \E c \in CallIds : insertChange(c)
    \/ \E c \in CallIds : logStatusChange(c)
    \/ \E c \in CallIds, permit \in permits, ctx \in Contexts :
          logPermitCreation(c, permit, ctx)
    \/ \E c \in CallIds, permit \in permits, ctx \in Contexts :
          logPermitDeletion(c, permit, ctx)
    \/ \E permitId \in PermitIds : getPermitAuditLogs(permitId)
    \/ \E filters \in filterChoices : getAllAuditLogs(filters)

Next == Step(Permits, FewFilters)

Spec == Init /\ [][Next]_vars

QueryNext == Step(FewPermits, Filters)

SpecQuery == Init /\ [][QueryNext]_vars

\* the audit trail view on its own, over a growing set of entries
SpecView == Init /\ [][ViewStep]_vars

-----------------------------------------------------------------------------
(* Detector runs: the inputs are drawn from bounded sets of permits.       *)

\* values a varied property takes in the detector runs
DetectValues ==
    { Null, Undefined, Str(""), Str("a"), Str("b"),
      Arr(<<"a", "b">>), Arr(<<"b", "a">>),
      DateV("2025-07-17T00:00:00.000Z"), Num(1) }

\* the property map of an object: undefined properties are not stored
Props(assign) ==
    [f \in {g \in DOMAIN assign : assign[g] # Undefined} |-> assign[f]]

DetectPermit(businessId, location, hazards) ==
    [id |-> 1,
     props |-> Props([permitId |-> Str(businessId), type |-> Str("hot_work"),
                      status |-> Str("pending"), location |-> location,
                      selectedHazards |-> hazards])]

DetectPermits ==
    { DetectPermit(b, l, h) :
        b \in {"P-1", "P-2"}, l \in DetectValues, h \in DetectValues }

DetectInit ==
    /\ store = <<>>
    /\ calls = <<>>
    /\ result = NoResult
    /\ original \in DetectPermits \cup {Absent}
    /\ updated \in DetectPermits
    /\ changes = <<>>
    /\ dpc = "ready"
    /\ view = InitialView

Detect ==
    /\ dpc = "ready"
    /\ changes' = detectChanges(original, updated)
    /\ dpc' = "done"
    /\ UNCHANGED <<store, calls, result, original, updated, view>>

DetectNext == Detect

SpecDetect == DetectInit /\ [][DetectNext]_vars

-----------------------------------------------------------------------------
(* Claims about the change detector (checked under SpecDetect).            *)

\* the tracked fields in which two permits hold different values
DifferingFields(p1, p2) == {f \in TrackedFields : Get(p1, f) # Get(p2, f)}

\* null against the empty string, in either direction
NullVsEmpty(a, b) ==
    \/ a = Null /\ b = Str("")
    \/ a = Str("") /\ b = Null

\* C9 as stated: when a present original and the updated permit hold
\* different values in exactly one tracked field f and the same value in
\* every other tracked field, detectChanges returns exactly one change:
\* field f, oldValue original[f], newValue updated[f].
C9_AsStated ==
    (dpc = "done" /\ original # Absent) =>
        \A f \in TrackedFields :
            DifferingFields(original, updated) = {f} =>
                changes = << [field |-> f,
                              oldValue |-> Get(original, f),
                              newValue |-> Get(updated, f)] >>

\* C9 amended: the same, provided the two values of f are not null on one
\* side and the empty string on the other; for that pair detectChanges
\* returns no change.
C9_OneChange ==
    /\ (dpc = "done" /\ original # Absent) =>
        \A f \in TrackedFields :
            ( /\ DifferingFields(original, updated) = {f}
              /\ ~NullVsEmpty(Get(original, f), Get(updated, f)) ) =>
                changes = << [field |-> f,
                              oldValue |-> Get(original, f),
                              newValue |-> Get(updated, f)] >>
    /\ (dpc = "done" /\ original # Absent) =>
        \A f \in TrackedFields :
            ( /\ DifferingFields(original, updated) = {f}
              /\ NullVsEmpty(Get(original, f), Get(updated, f)) ) =>
                changes = <<>>

\* a run on permits differing only in location, by values other than the
\* null / empty-string pair, has returned its single change
C9_Witness ==
    /\ dpc = "done"
    /\ original # Absent
    /\ DifferingFields(original, updated) = {"location"}
    /\ Get(original, "location") = Str("a")
    /\ Get(updated, "location") = Null
    /\ Len(changes) = 1

\* the equality rule of the claim: both sides null or absent in any
\* combination, null against the empty string, or equal by value
UnchangedByRule(a, b) ==
    \/ a \in {Null, Undefined} /\ b \in {Null, Undefined}
    \/ NullVsEmpty(a, b)
    \/ a = b

\* C10: detectChanges returns the empty sequence whenever every tracked
\* field is unchanged under the equality rule (null/absent in any
\* combination, null vs "", or equal by value).
C10_EmptyWhenUnchanged ==
    ( /\ dpc = "done"
      /\ original # Absent
      /\ \A f \in TrackedFields :
             UnchangedByRule(Get(original, f), Get(updated, f)) )
        => changes = <<>>

\* the fields of the changes the detector returned, in order
ChangedNames == [k \in DOMAIN changes |-> changes[k].field]

\* C12: for a tracked field holding arrays on both sides, detectChanges
\* reports the field as changed if and only if the two arrays differ as
\* ordered sequences: the same elements in another order is a change,
\* element-wise identical arrays are not.
C12_ArraysOrderSensitive ==
    (dpc = "done" /\ original # Absent) =>
        \A f \in TrackedFields :
            (Get(original, f).t = "array" /\ Get(updated, f).t = "array") =>
                ( (\E k \in DOMAIN changes : changes[k].field = f)
                    <=> Get(original, f).v # Get(updated, f).v )

\* location went from ["a","b"] to ["b","a"] and is reported, while
\* selectedHazards is ["a","b"] on both sides and is not
C12_Witness ==
    /\ dpc = "done"
    /\ original # Absent
    /\ Get(original, "location") = Arr(<<"a", "b">>)
    /\ Get(updated, "location") = Arr(<<"b", "a">>)
    /\ Get(original, "selectedHazards") = Arr(<<"a", "b">>)
    /\ Get(updated, "selectedHazards") = Arr(<<"a", "b">>)
    /\ ChangedNames = <<"location">>

\* the position of a field in the allow-list (0 when it is not in it)
AllowListIndex(f) ==
    IF f \in TrackedFields
    THEN CHOOSE k \in DOMAIN fieldsToTrack : fieldsToTrack[k] = f
    ELSE 0

\* C14: detectChanges returns its changes in allow-list order and only for
\* allow-listed fields: the returned field names are a subsequence of the
\* tracked-field list with no field repeated, and a difference in a field
\* outside the list (id, permitId) never produces a change.
C14_AllowListOrder ==
    dpc = "done" =>
        /\ \A k \in DOMAIN changes : changes[k].field \in TrackedFields
        /\ \A k \in DOMAIN changes : changes[k].field \notin {"id", "permitId"}
        /\ \A j, k \in DOMAIN changes :
              j < k => AllowListIndex(changes[j].field)
                          < AllowListIndex(changes[k].field)

\* two permits that differ in permitId, location and selectedHazards:
\* the two tracked fields are returned, location first
C14_Witness ==
    /\ dpc = "done"
    /\ original # Absent
    /\ Get(original, "permitId") # Get(updated, "permitId")
    /\ ChangedNames = <<"location", "selectedHazards">>

-----------------------------------------------------------------------------
(* Claims about the write path (checked under Spec).                       *)

\* the rows a call has put into the store, in the order of its inserts
WrittenRows(call) == [k \in DOMAIN call.written |-> store[call.written[k]]]

\* the tracked fields the equality rule of the detector reports as changed
ChangedFields(orig, upd) ==
    {f \in TrackedFields : hasValueChanged(Get(orig, f), Get(upd, f))}

\* a logPermitChanges call with a present original has returned and none
\* of its inserts failed
ChangesDone(call) ==
    /\ call.op = "logPermitChanges"
    /\ call.pc = "returned"
    /\ ~call.failed
    /\ call.original # Absent

CountRows(rows, P(_)) == Cardinality({k \in DOMAIN rows : P(rows[k])})

\* C1: with no failed insert, logPermitChanges with a present original
\* persists exactly one entry per changed tracked field (actionType of the
\* context, fieldName the field) plus exactly one status_change entry iff
\* the statuses differ; for update, pending -> approved and nothing else
\* changed that is two entries: update/status and a status_change whose
\* metadata.statusTransition is "pending -> approved".
C1_EntriesPerChange ==
    \A c \in CallIds :
        LET call == calls[c]
            rows == WrittenRows(call)
            fields == ChangedFields(call.original, call.updated)
            IsField(f, row) ==
                /\ row.actionType = call.context.actionType
                /\ row.fieldName = Str(f)
            IsStatusChange(row) == row.actionType = "status_change"
            IsOther(row) == ~IsStatusChange(row)
        IN  ChangesDone(call) =>
              /\ \A f \in fields :
                    Cardinality({k \in DOMAIN rows : IsField(f, rows[k])}) = 1
              /\ CountRows(rows, IsOther) = Cardinality(fields)
              /\ CountRows(rows, IsStatusChange) =
                    (IF Get(call.original, "status") # Get(call.updated, "status")
                     THEN 1 ELSE 0)
              /\ ( /\ call.context.actionType = "update"
                   /\ Get(call.original, "status") = Str("pending")
                   /\ Get(call.updated, "status") = Str("approved")
                   /\ fields = {"status"} ) =>
                     /\ Len(rows) = 2
                     /\ \E k \in DOMAIN rows :
                           /\ rows[k].actionType = "update"
                           /\ rows[k].fieldName = Str("status")
                     /\ \E k \in DOMAIN rows :
                           /\ rows[k].actionType = "status_change"
                           /\ rows[k].metadata["statusTransition"]
                                 = Str("pending -> approved")

\* an update call that changed only the status from pending to approved
\* has returned with its two entries in the store
C1_Witness ==
    \E c \in CallIds :
        /\ ChangesDone(calls[c])
        /\ calls[c].context.actionType = "update"
        /\ Get(calls[c].original, "status") = Str("pending")
        /\ Get(calls[c].updated, "status") = Str("approved")
        /\ ChangedFields(calls[c].original, calls[c].updated) = {"status"}
        /\ Len(calls[c].written) = 2

\* C2: a failed insert never propagates: every call that has returned has
\* returned normally, and a call whose insert failed has returned at once,
\* the failed attempt being its last (no retry).
C2_NeverRaises ==
    \A c \in CallIds :
        /\ calls[c].pc = "returned" => calls[c].outcome = "resolved"
        /\ calls[c].failed =>
              /\ calls[c].pc = "returned"
              /\ calls[c].attempts = Len(calls[c].written) + 1
        /\ ~calls[c].failed => calls[c].attempts = Len(calls[c].written)

\* a deletion whose insert failed and a logPermitChanges call that failed
\* after its first insert have both returned
C2_Witness ==
    \E c, d \in CallIds :
        /\ calls[c].op = "logPermitDeletion"
        /\ calls[c].failed
        /\ calls[c].pc = "returned"
        /\ calls[d].op = "logPermitChanges"
        /\ calls[d].failed
        /\ calls[d].pc = "returned"
        /\ Len(calls[d].written) = 1

\* the entries a logPermitChanges call is meant to write, as
\* <<actionType, fieldName>> pairs in the order of its inserts
MeantToWrite(call) ==
    [k \in DOMAIN call.changes |->
        <<call.context.actionType, Str(call.changes[k].field)>>]
    \o (IF Get(call.original, "status") # Get(call.updated, "status")
        THEN << <<"status_change", Str("status")>> >> ELSE <<>>)

\* C3 as stated: once a logPermitChanges call has returned, the store holds
\* either all of the entries the call is meant to write or none of them.
C3_AllOrNothing ==
    \A c \in CallIds :
        (calls[c].op = "logPermitChanges" /\ calls[c].pc = "returned") =>
            \/ Len(calls[c].written) = 0
            \/ Len(calls[c].written) = Len(MeantToWrite(calls[c]))

\* C3 amended: each insert is atomic, and a logPermitChanges call always
\* leaves a prefix of the entries it is meant to write: all of them when no
\* insert failed, and exactly those inserted before the failure otherwise.
C3_PrefixWritten ==
    \A c \in CallIds :
        LET call == calls[c]
            rows == WrittenRows(call)
            meant == MeantToWrite(call)
        IN  call.op = "logPermitChanges" =>
              /\ Len(rows) <= Len(meant)
              /\ \A k \in DOMAIN rows :
                    /\ DOMAIN rows[k] = AllLogColumns
                    /\ <<rows[k].actionType, rows[k].fieldName>> = meant[k]
              /\ (call.pc = "returned" /\ ~call.failed) => Len(rows) = Len(meant)
              /\ call.failed => Len(rows) < Len(meant)

\* a call meant to write three entries has returned after its second insert
\* failed: one entry of the three is in the store
C3_Witness ==
    \E c \in CallIds :
        /\ calls[c].op = "logPermitChanges"
        /\ calls[c].pc = "returned"
        /\ calls[c].failed
        /\ Len(MeantToWrite(calls[c])) = 3
        /\ Len(calls[c].written) = 1

\* C4: every persisted entry has fieldName = null if and only if its
\* actionType is "create" or "delete", whatever the context of the call.
C4_NullFieldIffCreateDelete ==
    \A k \in DOMAIN store :
        (store[k].fieldName = Null) <=> (store[k].actionType \in {"create", "delete"})

\* C5: the audit log is append-only: every step of any logging or read
\* call leaves each persisted entry as it was and removes none.
C5_AppendOnly ==
    [][ /\ Len(store') >= Len(store)
        /\ SubSeq(store', 1, Len(store)) = store ]_vars

\* the two requests have interleaved their inserts and a read has just
\* returned rows while a logging call is still in flight
C5_Witness ==
    /\ Len(store) >= 2
    /\ \E c, d \in CallIds :
          /\ c # d
          /\ calls[c].written # <<>>
          /\ calls[d].written # <<>>
          /\ calls[d].pc \in {"insertChange", "insertStatus"}
    /\ result.op # "none"
    /\ result.rows # <<>>

-----------------------------------------------------------------------------
(* Claims about the read path (checked under SpecQuery).                   *)

\* C6: getAllAuditLogs({actionType: A, limit: L}) returns at most L
\* entries and no entry whose actionType differs from A, for every store
\* content, every action type A and every provided limit L.
C6_LimitAndActionType ==
    ( /\ result.op = "getAllAuditLogs"
      /\ {"actionType", "limit"} \subseteq DOMAIN result.filters )
        => /\ Len(result.rows) <= result.filters["limit"]
           /\ \A k \in DOMAIN result.rows :
                 result.rows[k].actionType = result.filters["actionType"]

\* the filters among userId, permitId and actionType a call was given
GivenFilters(filters) == DOMAIN filters \cap {"userId", "permitId", "actionType"}

\* C7: the filters given to getAllAuditLogs combine conjunctively: with two
\* or more of userId, permitId and actionType given, every returned entry
\* matches every given filter, and (no limit or offset being given) every
\* stored entry matching all of them is returned.
C7_FiltersConjunctive ==
    ( /\ result.op = "getAllAuditLogs"
      /\ Cardinality(GivenFilters(result.filters)) >= 2 )
        => /\ \A k \in DOMAIN result.rows :
                 \A key \in GivenFilters(result.filters) :
                     result.rows[k][key] = result.filters[key]
           /\ (DOMAIN result.filters \cap {"limit", "offset"} = {}) =>
                 {result.rows[k].id : k \in DOMAIN result.rows}
                     = { k \in DOMAIN store :
                           \A key \in GivenFilters(result.filters) :
                               store[k][key] = result.filters[key] }

\* the positions in the store of the entries of a permit
EntriesOf(permitId) == {k \in DOMAIN store : store[k].permitId = permitId}

Latest(idxs) == CHOOSE k \in idxs : \A j \in idxs : j <= k

\* C8: getPermitAuditLogs(p) returns exactly the entries of permit p, and
\* both read calls return their rows by descending creation time; when the
\* entry logged last for p is the delete entry of logPermitDeletion, that
\* entry is the first element of getPermitAuditLogs(p).
C8_MostRecentFirst ==
    /\ result.op # "none" =>
          \A a, b \in DOMAIN result.rows :
              a < b => result.rows[a].createdAt >= result.rows[b].createdAt
    /\ result.op = "getPermitAuditLogs" =>
          /\ Len(result.rows) = Cardinality(EntriesOf(result.permitId))
          /\ {result.rows[k].id : k \in DOMAIN result.rows}
                = EntriesOf(result.permitId)
          /\ ( /\ EntriesOf(result.permitId) # {}
               /\ store[Latest(EntriesOf(result.permitId))].actionType = "delete" )
                => result.rows[1].id = Latest(EntriesOf(result.permitId))

-----------------------------------------------------------------------------
(* Further claims about the write path (checked under Spec).               *)

\* C11: when original is absent, detectChanges returns the empty sequence,
\* and logPermitChanges with no failed insert persists exactly one entry:
\* a status_change entry with fieldName "status", oldValue "undefined",
\* newValue updated.status and statusTransition "undefined -> <status>";
\* no field-update entry is written.
C11_AbsentOriginal ==
    \A c \in CallIds :
        LET call == calls[c]
            rows == WrittenRows(call)
        IN  (call.op = "logPermitChanges" /\ call.original = Absent) =>
              /\ call.changes = <<>>
              /\ \A k \in DOMAIN rows : rows[k].actionType = "status_change"
              /\ (call.pc = "returned" /\ ~call.failed) =>
                    /\ Len(rows) = 1
                    /\ rows[1].actionType = "status_change"
                    /\ rows[1].fieldName = Str("status")
                    /\ rows[1].oldValue = Str("undefined")
                    /\ rows[1].newValue = Get(call.updated, "status")
                    /\ rows[1].metadata["statusTransition"]
                          = Str("undefined -> "
                                  \o Get(call.updated, "status").v[1])

\* a logPermitChanges call without original has returned with its single
\* status_change entry in the store
C11_Witness ==
    \E c \in CallIds :
        /\ calls[c].op = "logPermitChanges"
        /\ calls[c].original = Absent
        /\ calls[c].pc = "returned"
        /\ ~calls[c].failed
        /\ Len(calls[c].written) = 1
        /\ Get(calls[c].updated, "location") = Str("b")

\* C13: when the insert succeeds, logPermitCreation persists exactly one
\* entry with actionType "create", fieldName null, oldValue null and newValue
\* the serialized {permitId, type, status} snapshot; logPermitDeletion
\* persists exactly one entry with actionType "delete", fieldName null,
\* oldValue that snapshot and newValue null.  The stored actionType is the
\* fixed one, whatever context.actionType says.
C13_CreateAndDelete ==
    \A c \in CallIds :
        LET call == calls[c]
            rows == WrittenRows(call)
            snapshot ==
                Str("{\"permitId\":\"" \o Get(call.updated, "permitId").v[1]
                    \o "\",\"type\":\"" \o Get(call.updated, "type").v[1]
                    \o "\",\"status\":\"" \o Get(call.updated, "status").v[1]
                    \o "\"}")
        IN  /\ (call.op = "logPermitCreation" /\ ~call.failed) =>
                  /\ Len(rows) = 1
                  /\ rows[1].permitId = call.updated.id
                  /\ rows[1].actionType = "create"
                  /\ rows[1].fieldName = Null
                  /\ rows[1].oldValue = Null
                  /\ rows[1].newValue = snapshot
            /\ (call.op = "logPermitDeletion" /\ ~call.failed) =>
                  /\ Len(rows) = 1
                  /\ rows[1].permitId = call.updated.id
                  /\ rows[1].actionType = "delete"
                  /\ rows[1].fieldName = Null
                  /\ rows[1].oldValue = snapshot
                  /\ rows[1].newValue = Null

\* a creation logged under a context that says "update" and a deletion
\* logged under a context that says "create" have both been persisted
C13_Witness ==
    /\ calls[1].op = "logPermitCreation"
    /\ calls[1].context.actionType = "update"
    /\ Len(calls[1].written) = 1
    /\ calls[2].op = "logPermitDeletion"
    /\ calls[2].context.actionType = "create"
    /\ Len(calls[2].written) = 1

\* the text of a status as the transition shows it
StatusText(permit) ==
    IF permit = Absent THEN "undefined" ELSE Get(permit, "status").v[1]

\* C15: every entry persisted by a write operation carries in its metadata
\* permitId equal to the permit's business identifier, permitType equal to
\* the permit's type and a timestamp, and these derived keys win over keys
\* of the same name in context.metadata; every status_change entry also
\* carries statusTransition = "<old> -> <new>".
C15_DerivedMetadata ==
    /\ \A id \in DOMAIN store :
          \E c \in CallIds :
              \E k \in DOMAIN calls[c].written : calls[c].written[k] = id
    /\ \A c \in CallIds :
          LET call == calls[c]
              rows == WrittenRows(call)
          IN  \A k \in DOMAIN rows :
                  /\ {"permitId", "permitType", "timestamp"}
                        \subseteq DOMAIN rows[k].metadata
                  /\ rows[k].metadata["permitId"]
                        = Get(call.updated, "permitId")
                  /\ rows[k].metadata["permitType"]
                        = Get(call.updated, "type")
                  /\ rows[k].metadata["timestamp"].t = "string"
                  /\ rows[k].actionType = "status_change" =>
                        /\ "statusTransition" \in DOMAIN rows[k].metadata
                        /\ rows[k].metadata["statusTransition"]
                              = Str(StatusText(call.original) \o " -> "
                                      \o StatusText(call.updated))

\* a call whose context.metadata names permitId itself has written a field
\* entry, which keeps the caller's own key, and a status_change entry
C15_Witness ==
    \E c \in CallIds :
        LET call == calls[c]
            rows == WrittenRows(call)
        IN  /\ call.op = "logPermitChanges"
            /\ "permitId" \in DOMAIN call.context.metadata
            /\ call.context.metadata["permitId"] # Get(call.updated, "permitId")
            /\ Len(rows) >= 2
            /\ rows[1].actionType = call.context.actionType
            /\ "requestId" \in DOMAIN rows[1].metadata
            /\ rows[Len(rows)].actionType = "status_change"

\* C16: within one logPermitChanges call the inserts are issued one after
\* another in allow-list order, and the status_change entry is inserted only
\* after every field entry of the call has been inserted successfully; so a
\* status_change entry of a call with a present original has the same call's
\* field entry for "status" in the store, inserted earlier.
C16_StatusChangeLast ==
    \A c \in CallIds :
        LET call == calls[c]
            rows == WrittenRows(call)
            n == Len(call.changes)
        IN  call.op = "logPermitChanges" =>
              /\ Len(rows) <= n + 1
              /\ call.attempts <= Len(rows) + 1
              /\ call.attempts > Len(rows) => call.failed
              /\ \A j, k \in DOMAIN rows : j < k => rows[j].id < rows[k].id
              /\ \A k \in DOMAIN rows :
                    IF k <= n
                    THEN /\ rows[k].actionType = call.context.actionType
                         /\ rows[k].fieldName = Str(call.changes[k].field)
                    ELSE /\ rows[k].actionType = "status_change"
                         /\ rows[k].fieldName = Str("status")
              /\ \A j, k \in 1 .. n :
                    j < k => AllowListIndex(call.changes[j].field)
                                < AllowListIndex(call.changes[k].field)
              /\ \A k \in DOMAIN rows :
                    (rows[k].actionType = "status_change"
                        /\ call.original # Absent) =>
                        \E j \in 1 .. (k - 1) :
                            /\ rows[j].actionType = call.context.actionType
                            /\ rows[j].fieldName = Str("status")
                            /\ rows[j].id < rows[k].id

\* a call with a present original wrote the entries for location and
\* status and then the status_change entry
C16_Witness ==
    \E c \in CallIds :
        LET call == calls[c]
            rows == WrittenRows(call)
        IN  /\ call.op = "logPermitChanges"
            /\ call.original # Absent
            /\ Len(call.changes) = 2
            /\ Len(rows) = 3
            /\ rows[1].fieldName = Str("location")
            /\ rows[2].fieldName = Str("status")
            /\ rows[3].actionType = "status_change"

-----------------------------------------------------------------------------
(* Claim about the audit trail view (checked under SpecView).              *)

\* C17: after any sequence of Next, Previous, Reset and limit changes from
\* offset 0, the pagination offset is never negative, Previous cannot be
\* used at offset 0, and Next cannot be used while the fetched page holds
\* fewer than limit entries.
C17_Pagination ==
    [][ /\ view.offset >= 0
        /\ view'.offset >= 0
        /\ (view.offset = 0 /\ view' # view) => view'.clicked # "previous"
        /\ (view.page < view.limit /\ view' # view) => view'.clicked # "next"
      ]_vars

\* Previous was used at an offset smaller than the limit (the limit was
\* raised after Next) and the offset stopped at 0
C17_Witness ==
    /\ view.clicked = "previous"
    /\ view.offset = 0
    /\ view.limit = 50
    /\ view.total >= 75

====
